---- MODULE Spec2Model ----
(***************************************************************************)
(* The node-graph example application of egui_node_graph_example/app.rs:   *)
(* the graph the editor holds (nodes built from templates, one optional    *)
(* connection and one inline value per input), the schema import, the      *)
(* active node, and the memoized recursive evaluator evaluate_node /       *)
(* evaluate_input / populate_output.                                       *)
(*                                                                         *)
(* The evaluator is recursive in the source.  Here each activation of      *)
(* evaluate_node is a frame of `stack`, and one action is one step of the  *)
(* top activation: resolving one input, calling the upstream node,         *)
(* resuming after the call, or populating the output.  f32 values are      *)
(* integers of a small range; the machine stack is MaxDepth frames deep.   *)
(***************************************************************************)
EXTENDS Integers, Sequences, FiniteSets, TLC

\* ------------------------------------------------------------------ bounds
\* Nodes the graph may hold.
MaxNodes == 2
\* Activations of evaluate_node the stack can hold before it is exhausted.
MaxDepth == 4
\* Connections the graph may hold.
MaxConnections == 2
\* Inline constants the user can type are 0 .. MaxVal.
MaxVal == 1
\* Components of inline constants that may differ from the default of build_node.
MaxEdited == 2
\* Nodes and connections of an imported schema.
MaxSchemaNodes == 2
MaxSchemaConns == 2

Vals == 0..MaxVal

\* ------------------------------------------------------------------ values
\* MyValueType.  One record shape for the three variants: x (and y) carry the
\* payload of Scalar and Vec2, node the payload of Queue.
Scalar(v) == [tag |-> "Scalar", x |-> v, y |-> 0, node |-> "-"]
Vec2(vx, vy) == [tag |-> "Vec2", x |-> vx, y |-> vy, node |-> "-"]
Queue(k) == [tag |-> "Queue", x |-> 0, y |-> 0, node |-> k]

\* MyDataType, and its hand-written PartialEq: any two Queue types are equal.
DScalar == [tag |-> "Scalar", node |-> "-"]
DVec2 == [tag |-> "Vec2", node |-> "-"]
DQueue(k) == [tag |-> "Queue", node |-> k]

\* The equality #[derive(PartialEq)] would give: Queue types of different
\* node kinds differ.
DataTypeEq_derived(a, b) == a = b

DataTypeEq(a, b) ==
    \/ a.tag = "Scalar" /\ b.tag = "Scalar"
    \/ a.tag = "Vec2" /\ b.tag = "Vec2"
    \/ a.tag = "Queue" /\ b.tag = "Queue"

\* The three downcasts: ok is the Ok/Err of the anyhow::Result, value the payload.
try_to_vec2(v) ==
    IF v.tag = "Vec2" THEN [ok |-> TRUE, value |-> <<v.x, v.y>>]
    ELSE [ok |-> FALSE, value |-> <<0, 0>>]

\* A downcast that only rejects vectors.
try_to_scalar_loose(v) ==
    IF v.tag # "Vec2" THEN [ok |-> TRUE, value |-> v.x]
    ELSE [ok |-> FALSE, value |-> 0]

try_to_scalar(v) ==
    IF v.tag = "Scalar" THEN [ok |-> TRUE, value |-> v.x]
    ELSE [ok |-> FALSE, value |-> 0]

try_to_node(v) ==
    IF v.tag = "Queue" THEN [ok |-> TRUE, value |-> v.node]
    ELSE [ok |-> FALSE, value |-> "-"]

\* --------------------------------------------------------------- templates
\* The names a Script node of the schema gives its ports (Node::template
\* collects them from the node's ioInfo).
ScriptInputNames == <<"value">>
ScriptOutputNames == <<"out">>

\* The closures of build_node: one input or output parameter each.
input_scalar(name) == [name |-> name, typ |-> DScalar, value |-> Scalar(0)]
\* A vector input whose inline value is the scalar default.
input_vector_scalar_default(name) == [name |-> name, typ |-> DVec2, value |-> Scalar(0)]

input_vector(name) == [name |-> name, typ |-> DVec2, value |-> Vec2(0, 0)]
build_depthai_input(name, k) == [name |-> name, typ |-> DQueue(k), value |-> Queue(k)]
output_scalar(name) == [name |-> name, typ |-> DScalar]
output_vector(name) == [name |-> name, typ |-> DVec2]
build_depthai_output(name, k) == [name |-> name, typ |-> DQueue(k)]

build_detection_network_inputs(k) == <<build_depthai_input("in", k)>>
build_detection_network_outputs(k) ==
    <<build_depthai_output("out", k), build_depthai_output("passthrough", k),
      build_depthai_output("outNetwork", k)>>
build_spatial_detection_network_inputs(k) ==
    <<build_depthai_input("in", k), build_depthai_input("inputDepth", k)>>
build_spatial_detection_network_outputs(k) ==
    <<build_depthai_output("out", k), build_depthai_output("boundingBoxMapping", k),
      build_depthai_output("passthroughDepth", k),
      build_depthai_output("spatialLocationCalculatorOutput", k),
      build_depthai_output("passthrough", k)>>

\* The input parameters build_node adds for a template, in order.
build_node_inputs(t) ==
    CASE t = "AddScalar" -> <<input_scalar("A"), input_scalar("B")>>
      [] t = "SubtractScalar" -> <<input_scalar("A"), input_scalar("B")>>
      [] t = "VectorTimesScalar" -> <<input_scalar("scalar"), input_vector("vector")>>
      [] t = "AddVector" -> <<input_vector("v1"), input_vector("v2")>>
      [] t = "SubtractVector" -> <<input_vector("v1"), input_vector("v2")>>
      [] t = "MakeVector" -> <<input_scalar("x"), input_scalar("y")>>
      [] t = "MakeScalar" -> <<input_scalar("value")>>
      [] t = "CreateColorCamera" ->
            <<build_depthai_input("inputConfig", "ColorCamera"),
              build_depthai_input("inputControl", "ColorCamera")>>
      [] t = "CreateMonoCamera" ->
            <<build_depthai_input("inputConfig", "MonoCamera"),
              build_depthai_input("inputControl", "MonoCamera")>>
      [] t = "CreateImageManip" ->
            <<build_depthai_input("inputImage", "ImageManip"),
              build_depthai_input("inputConfig", "ImageManip")>>
      [] t = "CreateVideoEncoder" -> <<build_depthai_input("in", "VideoEncoder")>>
      [] t = "CreateNeuralNetwork" -> <<build_depthai_input("in", "NeuralNetwork")>>
      [] t = "CreateDetectionNetwork" ->
            build_detection_network_inputs("DetectionNetwork")
      [] t = "CreateMobileNetDetectionNetwork" ->
            build_detection_network_inputs("MobileNetDetectionNetwork")
      [] t = "CreateMobileNetSpatialDetectionNetwork" ->
            build_spatial_detection_network_inputs("MobileNetSpatialDetectionNetwork")
      [] t = "CreateYoloDetectionNetwork" ->
            build_detection_network_inputs("YoloDetectionNetwork")
      [] t = "CreateYoloSpatialDetectionNetwork" ->
            build_spatial_detection_network_inputs("YoloSpatialDetectionNetwork")
      [] t = "CreateSPIIn" -> <<build_depthai_input("SPI (from MCU)", "SPIIn")>>
      [] t = "CreateSPIOut" -> <<build_depthai_input("in", "SPIOut")>>
      [] t = "CreateXLinkOut" -> <<build_depthai_input("in", "XLinkOut")>>
      [] t = "CreateXLinkIn" -> <<build_depthai_input("XLink (from host)", "XLinkIn")>>
      [] t = "CreateScript" ->
            [i \in DOMAIN ScriptInputNames |->
                build_depthai_input(ScriptInputNames[i], "Script")]
      [] t = "CreateStereoDepth" ->
            <<build_depthai_input("inputConfig", "StereoDepth"),
              build_depthai_input("left", "StereoDepth"),
              build_depthai_input("right", "StereoDepth")>>
      [] t = "CreateSpatialLocationCalculator" ->
            <<build_depthai_input("inputConfig", "SpatialLocationCalculator"),
              build_depthai_input("inputDepth", "SpatialLocationCalculator")>>
      [] t = "CreateEdgeDetector" ->
            <<build_depthai_input("inputConfig", "EdgeDetector"),
              build_depthai_input("inputImage", "EdgeDetector")>>
      [] t = "CreateFeaureTracker" ->
            <<build_depthai_input("inputConfig", "FeaureTracker"),
              build_depthai_input("inputImage", "FeaureTracker")>>
      [] t = "CreateObjectTracker" ->
            <<build_depthai_input("inputDetectionFrame", "ObjectTracker"),
              build_depthai_input("inputDetections", "ObjectTracker"),
              build_depthai_input("inputTrackerFrame", "ObjectTracker")>>
      [] t = "CreateIMU" -> <<>>
      [] t = "CreateSpatialDetectionNetwork" ->
            build_spatial_detection_network_inputs("SpatialDetectionNetwork")

\* The output parameters build_node adds for a template, in order.
build_node_outputs(t) ==
    CASE t = "AddScalar" -> <<output_scalar("out")>>
      [] t = "SubtractScalar" -> <<output_scalar("out")>>
      [] t = "VectorTimesScalar" -> <<output_vector("out")>>
      [] t = "AddVector" -> <<output_vector("out")>>
      [] t = "SubtractVector" -> <<output_vector("out")>>
      [] t = "MakeVector" -> <<output_vector("out")>>
      [] t = "MakeScalar" -> <<output_scalar("out")>>
      [] t = "CreateColorCamera" ->
            <<build_depthai_output("raw", "ColorCamera"),
              build_depthai_output("isp", "ColorCamera"),
              build_depthai_output("video", "ColorCamera"),
              build_depthai_output("still", "ColorCamera"),
              build_depthai_output("preview", "ColorCamera")>>
      [] t = "CreateMonoCamera" -> <<build_depthai_output("out", "MonoCamera")>>
      [] t = "CreateImageManip" -> <<build_depthai_output("out", "ImageManip")>>
      [] t = "CreateVideoEncoder" ->
            <<build_depthai_output("bitstream", "VideoEncoder")>>
      [] t = "CreateNeuralNetwork" ->
            <<build_depthai_output("out", "NeuralNetwork"),
              build_depthai_output("passthrough", "NeuralNetwork")>>
      [] t = "CreateDetectionNetwork" ->
            build_detection_network_outputs("DetectionNetwork")
      [] t = "CreateMobileNetDetectionNetwork" ->
            build_detection_network_outputs("MobileNetDetectionNetwork")
      [] t = "CreateMobileNetSpatialDetectionNetwork" ->
            build_spatial_detection_network_outputs("MobileNetSpatialDetectionNetwork")
      [] t = "CreateYoloDetectionNetwork" ->
            build_detection_network_outputs("YoloDetectionNetwork")
      [] t = "CreateYoloSpatialDetectionNetwork" ->
            build_spatial_detection_network_outputs("YoloSpatialDetectionNetwork")
      [] t = "CreateSPIIn" -> <<build_depthai_output("out", "SPIIn")>>
      [] t = "CreateSPIOut" -> <<build_depthai_output("SPI (to MCU)", "SPIOut")>>
      [] t = "CreateXLinkOut" -> <<build_depthai_output("XLink (to host)", "XLinkOut")>>
      [] t = "CreateXLinkIn" -> <<build_depthai_output("out", "XLinkIn")>>
      [] t = "CreateScript" ->
            [i \in DOMAIN ScriptOutputNames |->
                build_depthai_output(ScriptOutputNames[i], "Script")]
      [] t = "CreateStereoDepth" ->
            <<build_depthai_output("depth", "StereoDepth"),
              build_depthai_output("disparity", "StereoDepth"),
              build_depthai_output("rectifiedLeft", "StereoDepth"),
              build_depthai_output("rectifiedRight", "StereoDepth"),
              build_depthai_output("syncedLeft", "StereoDepth"),
              build_depthai_output("syncedRight", "StereoDepth"),
              build_depthai_output("confidenceMap", "StereoDepth")>>
      [] t = "CreateSpatialLocationCalculator" ->
            <<build_depthai_output("out", "SpatialLocationCalculator"),
              build_depthai_output("passthroughDepth", "SpatialLocationCalculator")>>
      [] t = "CreateEdgeDetector" ->
            <<build_depthai_output("outputImage", "EdgeDetector")>>
      [] t = "CreateFeaureTracker" ->
            <<build_depthai_output("outputFeatures", "FeaureTracker"),
              build_depthai_output("passthroughInputImage", "FeaureTracker")>>
      [] t = "CreateObjectTracker" ->
            <<build_depthai_output("out", "ObjectTracker"),
              build_depthai_output("passthroughDetectionFrame", "ObjectTracker"),
              build_depthai_output("passthroughDetections", "ObjectTracker"),
              build_depthai_output("passthroughTrackerFrame", "ObjectTracker")>>
      [] t = "CreateIMU" -> <<build_depthai_output("out", "IMU")>>
      [] t = "CreateSpatialDetectionNetwork" ->
            build_spatial_detection_network_outputs("SpatialDetectionNetwork")

\* The variants of MyNodeTemplate.
MyNodeTemplate ==
    {"MakeScalar", "AddScalar", "SubtractScalar", "MakeVector", "AddVector",
     "SubtractVector", "VectorTimesScalar", "CreateColorCamera", "CreateMonoCamera",
     "CreateImageManip", "CreateVideoEncoder", "CreateNeuralNetwork",
     "CreateDetectionNetwork", "CreateMobileNetDetectionNetwork",
     "CreateMobileNetSpatialDetectionNetwork", "CreateYoloDetectionNetwork",
     "CreateYoloSpatialDetectionNetwork", "CreateSpatialDetectionNetwork",
     "CreateSPIIn", "CreateSPIOut", "CreateXLinkIn", "CreateXLinkOut", "CreateScript",
     "CreateStereoDepth", "CreateSpatialLocationCalculator", "CreateEdgeDetector",
     "CreateFeaureTracker", "CreateObjectTracker", "CreateIMU"}

\* The templates the node finder offers the user.
AllMyNodeTemplates ==
    {"MakeScalar", "MakeVector", "AddScalar", "SubtractScalar", "AddVector",
     "SubtractVector", "VectorTimesScalar"}

\* Node::template: the template of a schema node, by its name.  The source
\* panics on any other name.
SchemaTemplate(name) ==
    CASE name = "ColorCamera" -> "CreateColorCamera"
      [] name = "MonoCamera" -> "CreateMonoCamera"
      [] name = "ImageManip" -> "CreateImageManip"
      [] name = "VideoEncoder" -> "CreateVideoEncoder"
      [] name = "NeuralNetwork" -> "CreateNeuralNetwork"
      [] name = "DetectionNetwork" -> "CreateDetectionNetwork"
      [] name = "MobileNetDetectionNetwork" -> "CreateMobileNetDetectionNetwork"
      [] name = "MobileNetSpatialDetectionNetwork" ->
            "CreateMobileNetSpatialDetectionNetwork"
      [] name = "YoloDetectionNetwork" -> "CreateYoloDetectionNetwork"
      [] name = "YoloSpatialDetectionNetwork" -> "CreateYoloSpatialDetectionNetwork"
      [] name = "SPIIn" -> "CreateSPIIn"
      [] name = "SPIOut" -> "CreateSPIOut"
      [] name = "XLinkIn" -> "CreateXLinkIn"
      [] name = "XLinkOut" -> "CreateXLinkOut"
      [] name = "Script" -> "CreateScript"
      [] name = "StereoDepth" -> "CreateStereoDepth"
      [] name = "SpatialLocationCalculator" -> "CreateSpatialLocationCalculator"
      [] name = "EdgeDetector" -> "CreateEdgeDetector"
      [] name = "FeaureTracker" -> "CreateFeaureTracker"
      [] name = "ObjectTracker" -> "CreateObjectTracker"
      [] name = "IMU" -> "CreateIMU"

\* The node names the schemas of this model use: the two depthai templates
\* evaluate_node has an arm for, one that falls to its default arm without a
\* port named "value", and a Script, whose ports are named by the schema.
SchemaNames == {"ColorCamera", "XLinkOut", "MonoCamera", "Script"}

\* ------------------------------------------------------------------- state
VARIABLES
    nodes,          \* graph.nodes: node id -> the template in its user_data
    connections,    \* graph.connections: input id -> the output id attached to it
    values,         \* the inline value of every input parameter
    node_positions, \* the keys of the editor's node_positions map
    node_order,     \* the editor's node_order
    active_node,    \* MyGraphState::active_node, None when no node is active
    status,         \* where update is: "idle" between evaluations, "running" inside
                    \* evaluate_node, "ok" / "err" when it returned, "done" when
                    \* update returned without evaluating, "panic" / "overflow"
                    \* when the process aborted
    stack,          \* the activations of evaluate_node, the innermost last
    cache,          \* outputs_cache of the running evaluation pass
    ret,            \* the Result the callee handed to the activation now on top
    calls,          \* history: activations of evaluate_node per node in this pass
    failed          \* history: nodes whose evaluate_node returned Err in this pass

vars == <<nodes, connections, values, node_positions, node_order, active_node,
          status, stack, cache, ret, calls, failed>>

graphVars == <<nodes, connections, values, node_positions, node_order>>
evalVars == <<status, stack, cache, ret, calls, failed>>

\* Option::None of active_node; node ids start at 1.
None == 0
NodeIds == 1..(MaxNodes + 1)

\* Input and output ids are the pair of the node and the port's name: the
\* source finds a port by get_input(name) / get_output(name) on the node.
PortNames(ports) == {ports[i].name : i \in DOMAIN ports}
PortNamed(ports, name) == ports[CHOOSE i \in DOMAIN ports : ports[i].name = name]

InputsOf(n, t) == {<<n, name>> : name \in PortNames(build_node_inputs(t))}
OutputsOf(n, t) == {<<n, name>> : name \in PortNames(build_node_outputs(t))}
AllInputs == UNION {InputsOf(n, nodes[n]) : n \in DOMAIN nodes}
AllOutputs == UNION {OutputsOf(n, nodes[n]) : n \in DOMAIN nodes}

InputParam(i) == PortNamed(build_node_inputs(nodes[i[1]]), i[2])
OutputParam(o) == PortNamed(build_node_outputs(nodes[o[1]]), o[2])

\* Node::get_input / Node::get_output: Err when the node has no port of that name.
get_input(n, name) == name \in PortNames(build_node_inputs(nodes[n]))
get_output(n, name) == name \in PortNames(build_node_outputs(nodes[n]))

\* The anyhow::Result an activation of evaluate_node returned, with the node it
\* was called on; NoRet while no return is pending.
NoRet == [kind |-> "none", value |-> Scalar(0), node |-> None]
Err(n) == [kind |-> "err", value |-> Scalar(0), node |-> n]
Ok(n, v) == [kind |-> "ok", value |-> v, node |-> n]

NoCalls == [n \in NodeIds |-> 0]

Init ==
    /\ nodes = <<>>
    /\ connections = <<>>
    /\ values = <<>>
    /\ node_positions = {}
    /\ node_order = <<>>
    /\ active_node = None
    /\ status = "idle"
    /\ stack = <<>>
    /\ cache = <<>>
    /\ ret = NoRet
    /\ calls = NoCalls
    /\ failed = {}

\* ------------------------------------------------------------------ editor
\* The key of a new node.  The slot map never hands out the key of a removed
\* node again; here the new node takes the smallest id that no node holds and
\* that active_node does not hold either, the one place a removed node's key
\* can remain.
NewNodeId(ns) ==
    CHOOSE id \in 1..(Cardinality(ns) + 2) :
        /\ id \notin ns \cup {active_node}
        /\ \A j \in 1..(id - 1) : j \in ns \cup {active_node}

DefaultValues(n, t) ==
    [i \in InputsOf(n, t) |-> PortNamed(build_node_inputs(t), i[2]).value]

\* Graph::add_node with the build_node callback, and the editor's bookkeeping.
add_node(ns, vs, t) ==
    LET id == NewNodeId(DOMAIN ns)
    IN  [nodes |-> (id :> t) @@ ns, values |-> DefaultValues(id, t) @@ vs, id |-> id]

\* The user creates a node from the node finder.
AddNode(t) ==
    /\ status = "idle"
    /\ Cardinality(DOMAIN nodes) < MaxNodes
    /\ LET r == add_node(nodes, values, t)
       IN  /\ nodes' = r.nodes
           /\ values' = r.values
           /\ node_positions' = node_positions \cup {r.id}
           /\ node_order' = Append(node_order, r.id)
    /\ UNCHANGED <<connections, active_node, evalVars>>

\* Graph::add_connection: an input holds one connection, the last one made.
add_connection(cs, o, i) == (i :> o) @@ cs

\* The user drags a connection: the editor attaches ports of equal data type.
Connect(o, i) ==
    /\ status = "idle"
    /\ o \in AllOutputs
    /\ i \in AllInputs
    /\ DataTypeEq(OutputParam(o).typ, InputParam(i).typ)
    /\ connections' = add_connection(connections, o, i)
    /\ Cardinality(DOMAIN connections') <= MaxConnections
    /\ UNCHANGED <<nodes, values, node_positions, node_order, active_node, evalVars>>

\* The user removes the connection of an input.
Disconnect(i) ==
    /\ status = "idle"
    /\ i \in DOMAIN connections
    /\ connections' = [x \in DOMAIN connections \ {i} |-> connections[x]]
    /\ UNCHANGED <<nodes, values, node_positions, node_order, active_node, evalVars>>

Edited(vs) ==
    Cardinality({i \in DOMAIN vs : vs[i].x # InputParam(i).value.x})
        + Cardinality({i \in DOMAIN vs : vs[i].y # InputParam(i).value.y})

\* value_widget: one DragValue edits the payload of a Scalar, or one component
\* of a Vec2, in place; a Queue has a label only.  The variant never changes.
value_widget(v) ==
    CASE v.tag = "Scalar" -> {Scalar(x) : x \in Vals}
      [] v.tag = "Vec2" -> {Vec2(x, v.y) : x \in Vals} \cup {Vec2(v.x, y) : y \in Vals}
      [] OTHER -> {v}

SetValue(i, v) ==
    /\ status = "idle"
    /\ i \in AllInputs
    /\ v \in value_widget(values[i])
    /\ v # values[i]
    /\ values' = [values EXCEPT ![i] = v]
    /\ Edited(values') <= MaxEdited
    /\ UNCHANGED <<nodes, connections, node_positions, node_order, active_node, evalVars>>

\* bottom_ui offers "Set active" on every node but the active one, and update
\* stores the node of the SetActiveNode response.
SetActiveNode(n) ==
    /\ status = "idle"
    /\ n \in DOMAIN nodes
    /\ ~(active_node # None /\ active_node = n)
    /\ active_node' = n
    /\ UNCHANGED <<graphVars, evalVars>>

\* A ClearActiveNode that needs no drawn node to come from.
ClearActiveNodeUndrawn ==
    /\ status = "idle"
    /\ active_node # None
    /\ active_node' = None
    /\ UNCHANGED <<graphVars, evalVars>>

\* bottom_ui offers "Active" on the active node; update clears on the response.
ClearActiveNode ==
    /\ status = "idle"
    /\ active_node # None
    /\ active_node \in DOMAIN nodes
    /\ active_node' = None
    /\ UNCHANGED <<graphVars, evalVars>>

\* ------------------------------------------------------------ schema import
\* A schema: its nodes by name (the schema's node id is the position in the
\* list) and its connections, each naming two nodes and a port of each.
SchemaConnectionsOf(ns) ==
    {c \in [source_node : DOMAIN ns,
            source_node_output :
                UNION {PortNames(build_node_outputs(SchemaTemplate(ns[k]))) : k \in DOMAIN ns},
            dest_node : DOMAIN ns,
            dest_node_input :
                UNION {PortNames(build_node_inputs(SchemaTemplate(ns[k]))) : k \in DOMAIN ns}] :
        /\ c.source_node_output
              \in PortNames(build_node_outputs(SchemaTemplate(ns[c.source_node])))
        /\ c.dest_node_input
              \in PortNames(build_node_inputs(SchemaTemplate(ns[c.dest_node])))}

SeqsUpTo(S, k) == UNION {[1..j -> S] : j \in 0..k}

\* The schemas the import is given: every node name known, every port named
\* by a connection present on its node.
Schemas ==
    UNION {{[nodes |-> ns, connections |-> cs] :
                cs \in SeqsUpTo(SchemaConnectionsOf(ns), MaxSchemaConns)} :
           ns \in UNION {[1..k -> SchemaNames] : k \in 1..MaxSchemaNodes}}

\* The first loop of create_nodes_from_dump: one graph node per schema node.
RECURSIVE AddSchemaNodes(_, _, _)
AddSchemaNodes(ns, k, acc) ==
    IF k > Len(ns) THEN acc
    ELSE LET r == add_node(acc.nodes, acc.values, SchemaTemplate(ns[k]))
         IN  AddSchemaNodes(ns, k + 1,
                 [nodes |-> r.nodes, values |-> r.values,
                  node_id_to_graph_node_id |-> Append(acc.node_id_to_graph_node_id, r.id),
                  node_positions |-> acc.node_positions \cup {r.id},
                  node_order |-> Append(acc.node_order, r.id)])

\* The second loop: ports are found by name, and attached without a type check.
RECURSIVE AddSchemaConnections(_, _, _, _)
AddSchemaConnections(cs, k, ids, acc) ==
    IF k > Len(cs) THEN acc
    ELSE AddSchemaConnections(cs, k + 1, ids,
             add_connection(acc,
                 <<ids[cs[k].source_node], cs[k].source_node_output>>,
                 <<ids[cs[k].dest_node], cs[k].dest_node_input>>))

\* update imports the schema when the editor shows no node.
create_nodes_from_dump(schema) ==
    /\ status = "idle"
    /\ node_positions = {}
    /\ Cardinality(DOMAIN nodes) + Len(schema.nodes) <= MaxNodes
    /\ LET r == AddSchemaNodes(schema.nodes, 1,
                    [nodes |-> nodes, values |-> values,
                     node_id_to_graph_node_id |-> <<>>,
                     node_positions |-> node_positions, node_order |-> node_order])
       IN  /\ nodes' = r.nodes
           /\ values' = r.values
           /\ node_positions' = r.node_positions
           /\ node_order' = r.node_order
           /\ connections' = AddSchemaConnections(schema.connections, 1,
                                 r.node_id_to_graph_node_id, connections)
    /\ UNCHANGED <<active_node, evalVars>>

\* --------------------------------------------------------------- evaluator
\* The arms of the match in evaluate_node: the inputs an arm reads, in order,
\* each with the downcast applied to it.
Read(name, cast) == [name |-> name, cast |-> cast]

evaluate_node_inputs(t) ==
    CASE t = "AddScalar" -> <<Read("A", "Scalar"), Read("B", "Scalar")>>
      [] t = "SubtractScalar" -> <<Read("A", "Scalar"), Read("B", "Scalar")>>
      [] t = "VectorTimesScalar" -> <<Read("scalar", "Scalar"), Read("vector", "Vec2")>>
      [] t = "AddVector" -> <<Read("v1", "Vec2"), Read("v2", "Vec2")>>
      [] t = "SubtractVector" -> <<Read("v1", "Vec2"), Read("v2", "Vec2")>>
      [] t = "MakeVector" -> <<Read("x", "Scalar"), Read("y", "Scalar")>>
      [] t = "MakeScalar" -> <<Read("value", "Scalar")>>
      [] t = "CreateColorCamera" -> <<Read("inputConfig", "Queue")>>
      [] t = "CreateXLinkOut" -> <<Read("in", "Queue")>>
      [] OTHER -> <<Read("value", "Scalar")>>

\* The output an arm populates.
evaluate_node_output(t) ==
    CASE t = "CreateColorCamera" -> "video"
      [] t = "CreateXLinkOut" -> "output"
      [] OTHER -> "out"

\* The arms with the operands of the subtraction exchanged.
evaluate_node_value_swapped(t, a) ==
    CASE t = "AddScalar" -> Scalar(a[1].x + a[2].x)
      [] t = "SubtractScalar" -> Scalar(a[2].x - a[1].x)
      [] t = "VectorTimesScalar" -> Vec2(a[2].x * a[1].x, a[2].y * a[1].x)
      [] t = "AddVector" -> Vec2(a[1].x + a[2].x, a[1].y + a[2].y)
      [] t = "SubtractVector" -> Vec2(a[1].x - a[2].x, a[1].y - a[2].y)
      [] t = "MakeVector" -> Vec2(a[1].x, a[2].x)
      [] t = "MakeScalar" -> Scalar(a[1].x)
      [] t = "CreateColorCamera" -> Queue(a[1].node)
      [] t = "CreateXLinkOut" -> Queue(a[1].node)
      [] OTHER -> Scalar(a[1].x)

\* The arms with the scalar applied to the first component only.
evaluate_node_value_x_only(t, a) ==
    CASE t = "AddScalar" -> Scalar(a[1].x + a[2].x)
      [] t = "SubtractScalar" -> Scalar(a[1].x - a[2].x)
      [] t = "VectorTimesScalar" -> Vec2(a[2].x * a[1].x, a[2].y)
      [] t = "AddVector" -> Vec2(a[1].x + a[2].x, a[1].y + a[2].y)
      [] t = "SubtractVector" -> Vec2(a[1].x - a[2].x, a[1].y - a[2].y)
      [] t = "MakeVector" -> Vec2(a[1].x, a[2].x)
      [] t = "MakeScalar" -> Scalar(a[1].x)
      [] t = "CreateColorCamera" -> Queue(a[1].node)
      [] t = "CreateXLinkOut" -> Queue(a[1].node)
      [] OTHER -> Scalar(a[1].x)

\* The value an arm computes from the inputs it read (a[k] is the value the
\* k-th read resolved to, already checked by its downcast).
evaluate_node_value(t, a) ==
    CASE t = "AddScalar" -> Scalar(a[1].x + a[2].x)
      [] t = "SubtractScalar" -> Scalar(a[1].x - a[2].x)
      [] t = "VectorTimesScalar" -> Vec2(a[2].x * a[1].x, a[2].y * a[1].x)
      [] t = "AddVector" -> Vec2(a[1].x + a[2].x, a[1].y + a[2].y)
      [] t = "SubtractVector" -> Vec2(a[1].x - a[2].x, a[1].y - a[2].y)
      [] t = "MakeVector" -> Vec2(a[1].x, a[2].x)
      [] t = "MakeScalar" -> Scalar(a[1].x)
      [] t = "CreateColorCamera" -> Queue(a[1].node)
      [] t = "CreateXLinkOut" -> Queue(a[1].node)
      [] OTHER -> Scalar(a[1].x)

\* input_scalar / input_vector / input_queue of the Evaluator: the downcast.
CastOk(cast, v) ==
    CASE cast = "Scalar" -> try_to_scalar(v).ok
      [] cast = "Vec2" -> try_to_vec2(v).ok
      [] cast = "Queue" -> try_to_node(v).ok

Frame(n) == [node |-> n, pc |-> 1, args |-> <<>>]
Top == stack[Len(stack)]
Reads == evaluate_node_inputs(nodes[Top.node])
CurRead == Reads[Top.pc]
CurInput == <<Top.node, CurRead.name>>

\* A pass that starts on a map kept from an earlier frame: the one in which
\* every arithmetic node was evaluated as build_node made it.
EvaluateStaleCache ==
    /\ status = "idle"
    /\ active_node # None
    /\ active_node \in DOMAIN nodes
    /\ status' = "running"
    /\ stack' = <<Frame(active_node)>>
    /\ cache' = [o \in {<<n, "out">> : n \in {m \in DOMAIN nodes :
                                                  nodes[m] \in AllMyNodeTemplates}} |->
                    evaluate_node_value(nodes[o[1]],
                        [k \in DOMAIN evaluate_node_inputs(nodes[o[1]]) |->
                            PortNamed(build_node_inputs(nodes[o[1]]),
                                      evaluate_node_inputs(nodes[o[1]])[k].name).value])]
    /\ ret' = NoRet
    /\ calls' = [NoCalls EXCEPT ![active_node] = 1]
    /\ failed' = {}
    /\ UNCHANGED <<graphVars, active_node>>

\* update evaluates the active node, when the graph holds it, with a new cache.
Evaluate ==
    /\ status = "idle"
    /\ active_node # None
    /\ active_node \in DOMAIN nodes
    /\ status' = "running"
    /\ stack' = <<Frame(active_node)>>
    /\ cache' = <<>>
    /\ ret' = NoRet
    /\ calls' = [NoCalls EXCEPT ![active_node] = 1]
    /\ failed' = {}
    /\ UNCHANGED <<graphVars, active_node>>

\* The top activation returns r: to its caller, or out of the top-level call.
Return(r) ==
    /\ stack' = SubSeq(stack, 1, Len(stack) - 1)
    /\ ret' = r
    /\ status' = IF Len(stack) > 1 THEN "running"
                 ELSE IF r.kind = "ok" THEN "ok" ELSE "err"
    /\ failed' = IF r.kind = "err" THEN failed \cup {Top.node} ELSE failed

\* evaluate_input returned Ok(v) to the top activation: the downcast, then on
\* to the next read, or `?` returns the cast's error.
Bind(v) ==
    IF CastOk(CurRead.cast, v)
    THEN /\ stack' = [stack EXCEPT ![Len(stack)] =
                         [@ EXCEPT !.pc = @ + 1, !.args = Append(@, v)]]
         /\ ret' = NoRet
         /\ UNCHANGED <<status, failed>>
    ELSE Return(Err(Top.node))

AtRead ==
    /\ status = "running"
    /\ ret.kind = "none"
    /\ Top.pc <= Len(Reads)

\* evaluate_input: get_input finds no input of that name.
InputMissing ==
    /\ AtRead
    /\ ~get_input(Top.node, CurRead.name)
    /\ Return(Err(Top.node))
    /\ UNCHANGED <<graphVars, active_node, cache, calls>>

\* A lookup that never finds a connection.
connection_none(i) == <<FALSE, i>>

\* Graph::connection: the output attached to an input, if any.
connection(i) == IF i \in DOMAIN connections THEN <<TRUE, connections[i]>> ELSE <<FALSE, i>>

\* evaluate_input: no connection, the inline value.
InputConstant ==
    /\ AtRead
    /\ get_input(Top.node, CurRead.name)
    /\ ~connection(CurInput)[1]
    /\ Bind(values[CurInput])
    /\ UNCHANGED <<graphVars, active_node, cache, calls>>

\* An evaluate_input that evaluates the upstream node whatever the cache holds.
InputCachedRecomputes ==
    /\ AtRead
    /\ get_input(Top.node, CurRead.name)
    /\ connection(CurInput)[1]
    /\ connection(CurInput)[2] \in DOMAIN cache
    /\ Len(stack) < MaxDepth
    /\ LET callee == connection(CurInput)[2][1]
       IN  /\ stack' = Append(stack, Frame(callee))
           /\ calls' = [calls EXCEPT ![callee] = @ + 1]
    /\ UNCHANGED <<graphVars, active_node, status, cache, ret, failed>>

\* evaluate_input: the connected output is in the cache.
InputCached ==
    /\ AtRead
    /\ get_input(Top.node, CurRead.name)
    /\ connection(CurInput)[1]
    /\ connection(CurInput)[2] \in DOMAIN cache
    /\ Bind(cache[connection(CurInput)[2]])
    /\ UNCHANGED <<graphVars, active_node, cache, calls>>

\* An evaluate_input that takes the inline value instead of recursing.
InputCallSkipped ==
    /\ AtRead
    /\ get_input(Top.node, CurRead.name)
    /\ connection(CurInput)[1]
    /\ connection(CurInput)[2] \notin DOMAIN cache
    /\ Bind(values[CurInput])
    /\ UNCHANGED <<graphVars, active_node, cache, calls>>

\* evaluate_input: the connected output is not in the cache; evaluate_node on
\* the node that owns it.
InputCall ==
    /\ AtRead
    /\ get_input(Top.node, CurRead.name)
    /\ connection(CurInput)[1]
    /\ connection(CurInput)[2] \notin DOMAIN cache
    /\ Len(stack) < MaxDepth
    /\ LET callee == connection(CurInput)[2][1]
       IN  /\ stack' = Append(stack, Frame(callee))
           /\ calls' = [calls EXCEPT ![callee] = @ + 1]
    /\ UNCHANGED <<graphVars, active_node, status, cache, ret, failed>>

\* The same call with the stack exhausted: the process aborts.
StackOverflow ==
    /\ AtRead
    /\ get_input(Top.node, CurRead.name)
    /\ connection(CurInput)[1]
    /\ connection(CurInput)[2] \notin DOMAIN cache
    /\ Len(stack) >= MaxDepth
    /\ status' = "overflow"
    /\ UNCHANGED <<graphVars, active_node, stack, cache, ret, calls, failed>>

\* evaluate_input after the recursive call returned Ok: the value is taken
\* from the cache.
ResumeOk ==
    /\ status = "running"
    /\ ret.kind = "ok"
    /\ connection(CurInput)[2] \in DOMAIN cache
    /\ Bind(cache[connection(CurInput)[2]])
    /\ UNCHANGED <<graphVars, active_node, cache, calls>>

\* ... and expect("Cache should be populated") on an output that is not there.
ExpectFailed ==
    /\ status = "running"
    /\ ret.kind = "ok"
    /\ connection(CurInput)[2] \notin DOMAIN cache
    /\ status' = "panic"
    /\ UNCHANGED <<graphVars, active_node, stack, cache, ret, calls, failed>>

\* An evaluate_input that drops the callee's error and takes the inline value.
ResumeErrSwallowed ==
    /\ status = "running"
    /\ ret.kind = "err"
    /\ Bind(values[CurInput])
    /\ UNCHANGED <<graphVars, active_node, cache, calls>>

\* evaluate_input after the recursive call returned Err: `?` returns it.
ResumeErr ==
    /\ status = "running"
    /\ ret.kind = "err"
    /\ Return(Err(Top.node))
    /\ UNCHANGED <<graphVars, active_node, cache, calls>>

AtOutput ==
    /\ status = "running"
    /\ ret.kind = "none"
    /\ Top.pc > Len(Reads)

\* populate_output: get_output finds no output of that name.
OutputMissing ==
    /\ AtOutput
    /\ ~get_output(Top.node, evaluate_node_output(nodes[Top.node]))
    /\ Return(Err(Top.node))
    /\ UNCHANGED <<graphVars, active_node, cache, calls>>

\* populate_output: the value goes into the cache and is returned.
populate_output ==
    /\ AtOutput
    /\ get_output(Top.node, evaluate_node_output(nodes[Top.node]))
    /\ LET value == evaluate_node_value(nodes[Top.node], Top.args)
       IN  /\ cache' = (<<Top.node, evaluate_node_output(nodes[Top.node])>> :> value) @@ cache
           /\ Return(Ok(Top.node, value))
    /\ UNCHANGED <<graphVars, active_node, calls>>

\* update has shown the result or the error; the next frame starts.
EndFrame ==
    /\ status \in {"ok", "err"}
    /\ status' = "idle"
    /\ stack' = <<>>
    /\ cache' = <<>>
    /\ ret' = NoRet
    /\ calls' = NoCalls
    /\ failed' = {}
    /\ UNCHANGED <<graphVars, active_node>>

\* A frame of update is the editor's events (the actions at status "idle"),
\* then the import, then one evaluation pass of the active node, Evaluate to
\* EndFrame.  Events of several frames may precede a pass: a frame without an
\* active node evaluates nothing, and the user can edit any graph that way.
Next ==
    \/ \E t \in AllMyNodeTemplates : AddNode(t)
    \/ node_positions = {} /\ \E schema \in Schemas : create_nodes_from_dump(schema)
    \/ \E o \in AllOutputs, i \in AllInputs : Connect(o, i)
    \/ \E i \in AllInputs : Disconnect(i)
    \/ \E i \in AllInputs : \E v \in value_widget(values[i]) : SetValue(i, v)
    \/ \E n \in NodeIds : SetActiveNode(n)
    \/ ClearActiveNode
    \/ Evaluate
    \/ InputMissing
    \/ InputConstant
    \/ InputCached
    \/ InputCall
    \/ StackOverflow
    \/ ResumeOk
    \/ ExpectFailed
    \/ ResumeErr
    \/ OutputMissing
    \/ populate_output
    \/ EndFrame

Spec == Init /\ [][Next]_vars

\* ----------------------------------------------------------- update, whole
\* The frames of update in their order: the editor is drawn and the user's
\* events are applied (the actions at status "idle"), then the schema is
\* imported if the editor shows no node, then the active node is evaluated or,
\* if the graph no longer holds it, cleared.  The inline constants play no part
\* in that order and keep the defaults of build_node here.

\* The user deletes a node: the graph drops it with its parameters and every
\* connection at one of its ports, the editor drops its position and its place
\* in node_order.  active_node is user state and is left alone.
DeleteNode(n) ==
    /\ status = "idle"
    /\ n \in DOMAIN nodes
    /\ nodes' = [m \in DOMAIN nodes \ {n} |-> nodes[m]]
    /\ values' = [i \in {j \in DOMAIN values : j[1] # n} |-> values[i]]
    /\ connections' = [i \in {j \in DOMAIN connections :
                                  j[1] # n /\ connections[j][1] # n} |-> connections[i]]
    /\ node_positions' = node_positions \ {n}
    /\ node_order' = SelectSeq(node_order, LAMBDA m : m # n)
    /\ UNCHANGED <<active_node, evalVars>>

\* The import every frame runs, whatever the editor shows.
ImportDueAlways == TRUE

\* update: "No nodes, create from json".
ImportDue == node_positions = {}

\* An end of update that leaves an active node the graph does not hold.
evaluate_active_keeps_deleted(ns) ==
    IF active_node # None /\ active_node \in DOMAIN ns
    THEN /\ status' = "running"
         /\ stack' = <<Frame(active_node)>>
         /\ cache' = <<>>
         /\ ret' = NoRet
         /\ calls' = [NoCalls EXCEPT ![active_node] = 1]
         /\ failed' = {}
         /\ UNCHANGED active_node
    ELSE /\ status' = "done"
         /\ UNCHANGED <<active_node, stack, cache, ret, calls, failed>>

\* The end of update, on the nodes ns the graph holds by then: the active node
\* is evaluated with a new empty cache if the graph holds it, and cleared if
\* not.
evaluate_active(ns) ==
    IF active_node # None /\ active_node \in DOMAIN ns
    THEN /\ status' = "running"
         /\ stack' = <<Frame(active_node)>>
         /\ cache' = <<>>
         /\ ret' = NoRet
         /\ calls' = [NoCalls EXCEPT ![active_node] = 1]
         /\ failed' = {}
         /\ UNCHANGED active_node
    ELSE /\ active_node' = None
         /\ status' = "done"
         /\ UNCHANGED <<stack, cache, ret, calls, failed>>

\* update after the editor was drawn, in a frame that imports the schema.
update_with_import(schema) ==
    /\ status = "idle"
    /\ ImportDue
    /\ Cardinality(DOMAIN nodes) + Len(schema.nodes) <= MaxNodes
    /\ LET r == AddSchemaNodes(schema.nodes, 1,
                    [nodes |-> nodes, values |-> values,
                     node_id_to_graph_node_id |-> <<>>,
                     node_positions |-> node_positions, node_order |-> node_order])
       IN  /\ nodes' = r.nodes
           /\ values' = r.values
           /\ node_positions' = r.node_positions
           /\ node_order' = r.node_order
           /\ connections' = AddSchemaConnections(schema.connections, 1,
                                 r.node_id_to_graph_node_id, connections)
           /\ evaluate_active(r.nodes)

\* update after the editor was drawn, in a frame that does not import.
update_without_import ==
    /\ status = "idle"
    /\ ~ImportDue
    /\ UNCHANGED graphVars
    /\ evaluate_active(nodes)

\* update returned, the map of its pass is dropped; the next call of update
\* draws the editor again.
next_frame ==
    /\ status \in {"ok", "err", "done"}
    /\ status' = "idle"
    /\ stack' = <<>>
    /\ cache' = <<>>
    /\ ret' = NoRet
    /\ calls' = NoCalls
    /\ failed' = {}
    /\ UNCHANGED <<graphVars, active_node>>

UpdateNext ==
    \/ \E t \in AllMyNodeTemplates : AddNode(t)
    \/ \E n \in NodeIds : DeleteNode(n)
    \/ \E o \in AllOutputs, i \in AllInputs : Connect(o, i)
    \/ \E i \in AllInputs : Disconnect(i)
    \/ \E n \in NodeIds : SetActiveNode(n)
    \/ ClearActiveNode
    \/ ImportDue /\ \E schema \in Schemas : update_with_import(schema)
    \/ update_without_import
    \/ InputMissing
    \/ InputConstant
    \/ InputCached
    \/ InputCall
    \/ StackOverflow
    \/ ResumeOk
    \/ ExpectFailed
    \/ ResumeErr
    \/ OutputMissing
    \/ populate_output
    \/ next_frame

SpecUpdate == Init /\ [][UpdateNext]_vars

\* ------------------------------------------------------------------ claims
\* The reads of the arm of node n, and the input id of its k-th read.
ReadsOf(n) == evaluate_node_inputs(nodes[n])
ReadInput(n, k) == <<n, ReadsOf(n)[k].name>>

\* The stack is exhausted only by a node that is evaluated while an activation
\* of it is still on the stack, that is, by a cycle of connections.
OverflowOnlyOnCycle ==
    status = "overflow" =>
        \E j, k \in DOMAIN stack : j < k /\ stack[j].node = stack[k].node

\* C1: on every graph, cyclic ones included, a top-level evaluate_node started
\* with an empty cache terminates with a value or an error: the recursion
\* never runs until the stack is exhausted.
C1_EvaluationTerminates == status # "overflow"

\* C2: after evaluate_input's recursive evaluate_node returned Ok, the cache
\* holds the connected output: expect("Cache should be populated") never fails.
C2_CachePopulated == status # "panic"

\* C3: within one evaluation pass no node is evaluated a second time.
C3_EvaluatedOnce == \A n \in NodeIds : calls[n] <= 1

\* C4: whenever evaluate_node(n) returned Ok, every output connected to an
\* input of n has a value in the cache.
C4_AllDependenciesEvaluated ==
    ret.kind = "ok" =>
        \A i \in InputsOf(ret.node, nodes[ret.node]) :
            i \in DOMAIN connections => connections[i] \in DOMAIN cache

\* C5: dependencies first.  When evaluate_node is about to insert a node's
\* output, every output connected to an input the node read is in the cache;
\* and so for every output in the cache, the outputs its node read are there.
C5_DependenciesFirst ==
    /\ (AtOutput /\ get_output(Top.node, evaluate_node_output(nodes[Top.node]))) =>
          \A k \in DOMAIN Reads :
              ReadInput(Top.node, k) \in DOMAIN connections =>
                  connections[ReadInput(Top.node, k)] \in DOMAIN cache
    /\ \A o \in DOMAIN cache : \A k \in DOMAIN ReadsOf(o[1]) :
          ReadInput(o[1], k) \in DOMAIN connections =>
              connections[ReadInput(o[1], k)] \in DOMAIN cache

C5_Witness ==
    /\ AtOutput
    /\ get_output(Top.node, evaluate_node_output(nodes[Top.node]))
    /\ \E k \in DOMAIN Reads :
          /\ ReadInput(Top.node, k) \in DOMAIN connections
          /\ connections[ReadInput(Top.node, k)][1] # Top.node

\* C6: the value evaluate_input returned for an input is the inline constant
\* when the input has no connection, and the cached value of the connected
\* output when it has one (the inline constant is then ignored).
C6_InputValue ==
    \A f \in DOMAIN stack : \A k \in 1..(stack[f].pc - 1) :
        LET i == ReadInput(stack[f].node, k)
        IN  IF i \in DOMAIN connections
            THEN /\ connections[i] \in DOMAIN cache
                 /\ stack[f].args[k] = cache[connections[i]]
            ELSE stack[f].args[k] = values[i]

C6_Witness ==
    \E f \in DOMAIN stack : \E j, k \in 1..(stack[f].pc - 1) :
        /\ ReadInput(stack[f].node, j) \notin DOMAIN connections
        /\ values[ReadInput(stack[f].node, j)] # InputParam(ReadInput(stack[f].node, j)).value
        /\ ReadInput(stack[f].node, k) \in DOMAIN connections
        /\ stack[f].args[k] # values[ReadInput(stack[f].node, k)]

\* C7: no activation goes on past an input whose port is missing or whose
\* downcast failed; and once evaluate_node on some node returned an error, no
\* output of that node is in the cache, every caller returns the error in its
\* turn, and the top-level call ends with an error.
C7_ErrorPropagates ==
    /\ \A f \in DOMAIN stack : \A k \in 1..(stack[f].pc - 1) :
          /\ get_input(stack[f].node, ReadsOf(stack[f].node)[k].name)
          /\ stack[f].args[k].tag = ReadsOf(stack[f].node)[k].cast
    /\ failed # {} =>
          /\ status \in {"running", "err"}
          /\ ret.kind = "err"
          /\ \A n \in failed : \A o \in DOMAIN cache : o[1] # n
          /\ status = "err" => active_node \in failed

C7_Witness ==
    /\ status = "err"
    /\ Cardinality(failed) > 1

\* C8: each downcast succeeds exactly on its variant and then returns the
\* payload; of the three, exactly one succeeds on any value.
C8_Downcasts ==
    \A v \in {values[i] : i \in DOMAIN values} \cup {cache[o] : o \in DOMAIN cache} :
        /\ try_to_scalar(v).ok <=> v.tag = "Scalar"
        /\ try_to_vec2(v).ok <=> v.tag = "Vec2"
        /\ try_to_node(v).ok <=> v.tag = "Queue"
        /\ try_to_scalar(v).ok => try_to_scalar(v).value = v.x
        /\ try_to_vec2(v).ok => try_to_vec2(v).value = <<v.x, v.y>>
        /\ try_to_node(v).ok => try_to_node(v).value = v.node
        /\ Cardinality({c \in {"Scalar", "Vec2", "Queue"} : CastOk(c, v)}) = 1

C8_Witness ==
    /\ status = "err"
    /\ \E n \in failed : nodes[n] = "CreateScript"
    /\ {values[i].tag : i \in DOMAIN values} = {"Scalar", "Vec2", "Queue"}

\* The value an input of a node resolves to once the outputs it depends on
\* are in the cache.
Resolved(i) == IF i \in DOMAIN connections THEN cache[connections[i]] ELSE values[i]
Depends(n) ==
    {connections[i] : i \in InputsOf(n, nodes[n]) \cap DOMAIN connections}

\* C9: the value stored for output "out" of a scalar node, and returned by
\* evaluate_node, is A + B, A - B or value of its resolved inputs.
C9_ScalarResults ==
    /\ \A n \in DOMAIN nodes :
          <<n, "out">> \in DOMAIN cache =>
              /\ nodes[n] \in {"AddScalar", "SubtractScalar", "MakeScalar"} =>
                    Depends(n) \subseteq DOMAIN cache
              /\ nodes[n] = "AddScalar" =>
                    cache[<<n, "out">>]
                        = Scalar(Resolved(<<n, "A">>).x + Resolved(<<n, "B">>).x)
              /\ nodes[n] = "SubtractScalar" =>
                    cache[<<n, "out">>]
                        = Scalar(Resolved(<<n, "A">>).x - Resolved(<<n, "B">>).x)
              /\ nodes[n] = "MakeScalar" =>
                    cache[<<n, "out">>] = Scalar(Resolved(<<n, "value">>).x)
    /\ (ret.kind = "ok"
            /\ nodes[ret.node] \in {"AddScalar", "SubtractScalar", "MakeScalar"}) =>
          /\ <<ret.node, "out">> \in DOMAIN cache
          /\ ret.value = cache[<<ret.node, "out">>]

C9_Witness ==
    /\ status = "ok"
    /\ nodes[ret.node] = "SubtractScalar"
    /\ <<ret.node, "A">> \in DOMAIN connections
    /\ Resolved(<<ret.node, "B">>).x # 0
    /\ Resolved(<<ret.node, "A">>).x # Resolved(<<ret.node, "B">>).x

\* C10: the value stored for output "out" of a vector node, and returned by
\* evaluate_node, is (x, y), v1 + v2, v1 - v2 or vector * scalar of its
\* resolved inputs, component by component.
C10_VectorResults ==
    /\ \A n \in DOMAIN nodes :
          <<n, "out">> \in DOMAIN cache =>
              /\ nodes[n] \in {"MakeVector", "AddVector", "SubtractVector",
                               "VectorTimesScalar"} =>
                    Depends(n) \subseteq DOMAIN cache
              /\ nodes[n] = "MakeVector" =>
                    cache[<<n, "out">>]
                        = Vec2(Resolved(<<n, "x">>).x, Resolved(<<n, "y">>).x)
              /\ nodes[n] = "AddVector" =>
                    cache[<<n, "out">>]
                        = Vec2(Resolved(<<n, "v1">>).x + Resolved(<<n, "v2">>).x,
                               Resolved(<<n, "v1">>).y + Resolved(<<n, "v2">>).y)
              /\ nodes[n] = "SubtractVector" =>
                    cache[<<n, "out">>]
                        = Vec2(Resolved(<<n, "v1">>).x - Resolved(<<n, "v2">>).x,
                               Resolved(<<n, "v1">>).y - Resolved(<<n, "v2">>).y)
              /\ nodes[n] = "VectorTimesScalar" =>
                    cache[<<n, "out">>]
                        = Vec2(Resolved(<<n, "vector">>).x * Resolved(<<n, "scalar">>).x,
                               Resolved(<<n, "vector">>).y * Resolved(<<n, "scalar">>).x)
    /\ (ret.kind = "ok"
            /\ nodes[ret.node] \in {"MakeVector", "AddVector", "SubtractVector",
                                    "VectorTimesScalar"}) =>
          /\ <<ret.node, "out">> \in DOMAIN cache
          /\ ret.value = cache[<<ret.node, "out">>]

C10_Witness ==
    /\ status = "ok"
    /\ nodes[ret.node] = "VectorTimesScalar"
    /\ <<ret.node, "vector">> \in DOMAIN connections
    /\ Resolved(<<ret.node, "vector">>).y # 0
    /\ Resolved(<<ret.node, "scalar">>).x = 0

\* A value is of the variant of a data type, of the same node kind for a Queue.
ValueOfType(v, typ) ==
    /\ v.tag = typ.tag
    /\ typ.tag = "Queue" => v.node = typ.node

\* C11: every input parameter build_node creates, for every template, has an
\* inline value of the variant of its data type (Scalar, Vec2, or Queue of the
\* same kind); so has every input of every node in the graph, after any edit
\* of its value.
C11_ValueMatchesType ==
    /\ \A t \in MyNodeTemplate : \A k \in DOMAIN build_node_inputs(t) :
          ValueOfType(build_node_inputs(t)[k].value, build_node_inputs(t)[k].typ)
    /\ DOMAIN values = AllInputs
    /\ \A i \in AllInputs : ValueOfType(values[i], InputParam(i).typ)

C11_Witness ==
    /\ \E i \in AllInputs : InputParam(i).typ.tag = "Queue"
    /\ \E i \in AllInputs :
          InputParam(i).typ.tag = "Vec2" /\ values[i] # InputParam(i).value

\* C12: after any sequence of connections made in the editor, deletions and
\* schema imports, every connection joins an input and an output that exist
\* and whose data types are equal under MyDataType's equality.
C12_ConnectionsTyped ==
    \A i \in DOMAIN connections :
        /\ i \in AllInputs
        /\ connections[i] \in AllOutputs
        /\ DataTypeEq(OutputParam(connections[i]).typ, InputParam(i).typ)

C12_Witness ==
    \E i \in DOMAIN connections :
        /\ InputParam(i).typ.tag = "Queue"
        /\ InputParam(i).typ # OutputParam(connections[i]).typ

\* What a step may do to active_node while the editor is drawn.
ActiveNodeStep ==
    /\ \A n \in NodeIds :
          SetActiveNode(n) => n \in DOMAIN nodes /\ active_node # n /\ active_node' = n
    /\ ClearActiveNode => active_node \in DOMAIN nodes /\ active_node' = None
    /\ (status = "idle" /\ status' = "idle" /\ active_node' # active_node) =>
          IF active_node' = None
          THEN active_node \in DOMAIN nodes
          ELSE active_node' \in DOMAIN nodes /\ SetActiveNode(active_node')

\* C13: the active-node protocol.  active_node is one node id or None.  While
\* the editor is drawn, a step that makes a node active makes a node of the
\* graph active that was not active before, and it is the step of
\* SetActiveNode on that node; a step that leaves no node active starts with
\* the active node in the graph, where bottom_ui drew its button.
C13_ActiveNodeProtocol ==
    /\ [](active_node \in NodeIds \cup {None})
    /\ [][ActiveNodeStep]_vars

C13_Witness ==
    /\ status = "idle"
    /\ Cardinality(DOMAIN nodes) = 2
    /\ active_node \in DOMAIN nodes
    /\ active_node # node_order[1]

\* C14: the evaluation update starts on the active node ends with Ok or Err,
\* which update shows as text; it never aborts the frame, neither by the
\* expect on the cache nor by exhausting the stack.
C14_EvaluationNeverAborts ==
    /\ status \notin {"panic", "overflow"}
    /\ status \in {"ok", "err"} => stack = <<>> /\ ret.kind = status

\* The top activation is about to resolve an input whose connected output is
\* in the cache.
CacheHit ==
    /\ AtRead
    /\ CurInput \in AllInputs
    /\ CurInput \in DOMAIN connections
    /\ connections[CurInput] \in DOMAIN cache

\* The step evaluate_input takes on a cache hit.
CacheHitStep ==
    CacheHit =>
        /\ cache' = cache
        /\ calls' = calls
        /\ IF CastOk(CurRead.cast, cache[connections[CurInput]])
           THEN stack' = [stack EXCEPT ![Len(stack)] =
                             [@ EXCEPT !.pc = @ + 1,
                                       !.args = Append(@, cache[connections[CurInput]])]]
           ELSE stack' = SubSeq(stack, 1, Len(stack) - 1) /\ ret'.kind = "err"

\* C15: when the output connected to an input is already in the cache,
\* evaluate_input hands the cached value to the node, starts no evaluation of
\* the upstream node and leaves the cache as it is.
C15_CacheHit == [][CacheHitStep]_vars

C15_Witness ==
    /\ status = "running"
    /\ Top.pc = 3
    /\ ReadInput(Top.node, 1) \in DOMAIN connections
    /\ ReadInput(Top.node, 2) \in DOMAIN connections
    /\ connections[ReadInput(Top.node, 1)] = connections[ReadInput(Top.node, 2)]
    /\ connections[ReadInput(Top.node, 1)][1] # Top.node
    /\ calls[connections[ReadInput(Top.node, 1)][1]] = 1

\* The value of node n by the graph alone: its arm applied to the inline
\* constants of its unconnected inputs and to the values of the nodes its
\* connected inputs lead to.
RECURSIVE ValueOf(_, _)
ValueOf(n, depth) ==
    IF depth = 0 THEN Scalar(0)
    ELSE evaluate_node_value(nodes[n],
             [k \in DOMAIN ReadsOf(n) |->
                 IF ReadInput(n, k) \in DOMAIN connections
                 THEN ValueOf(connections[ReadInput(n, k)][1], depth - 1)
                 ELSE values[ReadInput(n, k)]])

\* The first state of an evaluation pass.
PassStart ==
    /\ status = "running"
    /\ stack = <<Frame(active_node)>>
    /\ ret = NoRet
    /\ calls = [NoCalls EXCEPT ![active_node] = 1]

\* C16: every pass starts on an empty cache, every value in the cache is the
\* value of its node by the graph as it is in this frame, and so is the result
\* update shows: nothing computed before the last change of a constant or of a
\* connection is used.
C16_FreshCache ==
    /\ PassStart => cache = <<>>
    /\ \A o \in DOMAIN cache : cache[o] = ValueOf(o[1], MaxDepth)
    /\ status = "ok" => ret.value = ValueOf(active_node, MaxDepth)

C16_Witness ==
    /\ status = "ok"
    /\ \E j \in DOMAIN connections : \E i \in DOMAIN values :
          /\ j[1] = active_node
          /\ connections[j][1] = i[1]
          /\ i[1] # active_node
          /\ values[i] # InputParam(i).value
          /\ ret.value # ValueOf(active_node, 1)
          /\ calls[i[1]] = 1

\* The active node is a node the graph held and holds no longer.
ActiveNodeDeleted == active_node # None /\ active_node \notin DOMAIN nodes

\* The end of an update whose active node has been deleted.
DeletedActiveStep ==
    (status = "idle" /\ status' # "idle" /\ ActiveNodeDeleted) =>
        /\ status' = "done"
        /\ active_node' = None
        /\ stack' = <<>>
        /\ calls' = NoCalls

\* C17: when update has returned, and all through its evaluation pass, the
\* active node is absent or a node of the graph; an update that finds the
\* active node deleted clears it and evaluates nothing.
C17_ActiveNodeExists ==
    /\ [](status # "idle" => active_node = None \/ active_node \in DOMAIN nodes)
    /\ [][DeletedActiveStep]_vars

C17_Witness ==
    /\ status = "idle"
    /\ nodes # <<>>
    /\ ActiveNodeDeleted

\* The templates a schema node can have.
ImportedTemplates == {SchemaTemplate(name) : name \in SchemaNames}

\* What a step may do to the nodes of the graph: the end of update imports a
\* schema if and only if the editor shows no node; while the editor is drawn,
\* a new node is one node of the node finder.
ImportStep ==
    /\ (status = "idle" /\ status' # "idle") =>
          IF node_positions = {}
          THEN /\ node_positions' # {}
               /\ \A n \in DOMAIN nodes' : nodes'[n] \in ImportedTemplates
          ELSE UNCHANGED graphVars
    /\ (status = "idle" /\ status' = "idle") =>
          /\ Cardinality(DOMAIN nodes' \ DOMAIN nodes) <= 1
          /\ \A n \in DOMAIN nodes' \ DOMAIN nodes : nodes'[n] \in AllMyNodeTemplates
    /\ status # "idle" => UNCHANGED graphVars

\* C18: update imports the schema if and only if node_positions is empty
\* after the editor was drawn: never while a node is present, and again, in
\* the same update, once the user has deleted the last node.  The editor has
\* a position for every node of the graph and for no other.
C18_ImportWhenEmpty ==
    /\ [](node_positions = DOMAIN nodes)
    /\ [][ImportStep]_vars

C18_Witness ==
    /\ status = "done"
    /\ DOMAIN nodes = {2, 3}
    /\ \A n \in DOMAIN nodes : nodes[n] \in ImportedTemplates

\* The graph after the import of schema, against the graph before it: ids is
\* the part of node_order the import appended, one id per schema node.
Imported(schema) ==
    LET ids == SubSeq(node_order', Len(node_order) + 1, Len(node_order'))
    IN  /\ Len(ids) = Len(schema.nodes)
        /\ \A j, k \in DOMAIN ids : j # k => ids[j] # ids[k]
        /\ \A k \in DOMAIN ids : ids[k] \notin DOMAIN nodes
        /\ DOMAIN nodes' = DOMAIN nodes \cup {ids[k] : k \in DOMAIN ids}
        /\ node_positions' = node_positions \cup {ids[k] : k \in DOMAIN ids}
        /\ \A k \in DOMAIN ids : nodes'[ids[k]] = SchemaTemplate(schema.nodes[k])
        /\ \A k \in DOMAIN schema.connections :
              LET c == schema.connections[k]
                  input == <<ids[c.dest_node], c.dest_node_input>>
              IN  /\ input \in DOMAIN connections'
                  /\ connections'[input] = <<ids[c.source_node], c.source_node_output>>

ImportedStep == \A schema \in Schemas : create_nodes_from_dump(schema) => Imported(schema)

\* C19: after create_nodes_from_dump on a schema of known node names and
\* existing port names the graph has gained exactly one node per schema node,
\* each in node_positions and in node_order, and every connection of the
\* schema joins the named input of its destination node to the named output
\* of its source node.
C19_ImportBuildsSchema == [][ImportedStep]_vars

\* C20: whenever evaluate_node is about to read an input or to populate an
\* output of a node, build_node gave the node's template a port of that name
\* and direction: no evaluation fails on a missing port.
C20_ArmPortsExist ==
    /\ AtRead => get_input(Top.node, CurRead.name)
    /\ AtOutput => get_output(Top.node, evaluate_node_output(nodes[Top.node]))

====
